---- MODULE Spec2Model ----
(***************************************************************************)
(* A model of VenmoGraph (src/src/median_degree.py): the 60-second window  *)
(* of payment edges, the per-vertex degree ledger, the degree histogram    *)
(* and the median lookup over the histogram.                               *)
(*                                                                         *)
(* Timestamps (datetime values with second resolution) are integers: the   *)
(* number of seconds after the first instant of the stream.  Vertices      *)
(* (opaque names) are the integers 1..NumVertices.  A float that           *)
(* get_median_degree returns is always a multiple of 0.5 and is kept as    *)
(* the number of halves it holds (1.0 is 2, 1.5 is 3).                     *)
(***************************************************************************)
EXTENDS Integers, Sequences, FiniteSets

\* ---------------------------------------------------------------- bounds

\* Vertex names are 1..NumVertices.
NumVertices == 4

\* Timestamps are TimeOf(0) .. TimeOf(MaxTick).
MaxTick == 2

\* add_edge is not called when it would leave more than MaxEdges edges held.
MaxEdges == 2

\* The lines of an input file of the driver.
MaxLines == 3

\* ------------------------------------------------------ program constants

\* self.window_seconds = 60
window_seconds == 60

\* datetime.min, what newest_time() returns for an empty graph.  It lies
\* some 6 * 10^10 seconds before any timestamp of a stream of this century;
\* the model keeps that it precedes every timestamp by more than the window.
datetime_min == -1000

\* Python's None, as a returned value.
None == -1

\* ----------------------------------------------------------------- inputs

Vertices == 1..NumVertices

\* The timestamps offered to the graph: pairs of instants one second apart,
\* the pairs 60 seconds apart, so that gaps of 1, 59, 60 and 61 seconds (and
\* their sums) all occur.
TimeOf(k) == window_seconds * (k \div 2) + (k % 2)

Times == {TimeOf(k) : k \in 0..MaxTick}

\* Edge(v1, v2, date_str) after construction.
Edge(a, b, t) == [v1 |-> a, v2 |-> b, created_time |-> t]

\* Edge.vertices(): the pair (v1, v2).
vertices(edge) == <<edge.v1, edge.v2>>

\* The pairs of participants that transact: a chain 1 - 2 - ... of payments
\* between neighbours, and a payment of participant 1 to itself.  Two payments
\* of one pair are parallel edges, two neighbouring pairs share a vertex, two
\* pairs further apart share none.
VertexPairs == {<<v, v + 1>> : v \in 1..(NumVertices - 1)} \cup {<<1, 1>>}

\* The edges passed to add_edge.
InputEdges == {Edge(p[1], p[2], t) : p \in VertexPairs, t \in Times}

\* The edge stored in a call record when the operation takes no edge.
NoEdge == Edge(0, 0, datetime_min)

\* ------------------------------------------------------------------ state

VARIABLES edges, degrees, degree_buckets, call, date_str, made,
          source, line, yielded, output, pc

vars == <<edges, degrees, degree_buckets, call, date_str, made,
          source, line, yielded, output, pc>>

\* self.edges: a sequence of edges.
\* self.degrees: a dict, a function on the set of its keys.
\* self.degree_buckets: a defaultdict(int), a function on the set of its keys.
\* call: the last method called on the graph: its name, its arguments (edge,
\*   index), len(self.edges) as the call began (held), and what it returned
\*   (ret, or flag for a bool).
\* date_str: the timestamp text given to Edge(v1, v2, date_str), a sequence of
\*   characters.
\* made: what the construction of that Edge came to.
\* source: the lines of the input file of gen_median_degrees.
\* line: the number of lines read from source.
\* yielded: the medians gen_median_degrees has yielded, in halves.
\* output: the lines main has written to the output file.
\* pc: where main stands: "idle" (not run), "reading" (in the loop), "done"
\*   (returned) or "raised" (left by an exception).

\* The variables of the graph.
gvars == <<edges, degrees, degree_buckets, call>>

\* The variables of the construction of an Edge.
evars == <<date_str, made>>

\* The variables of the driving loop.
dvars == <<source, line, yielded, output, pc>>

\* No Edge(...) call has been made.
NotMade == [done |-> FALSE, raised |-> FALSE, created_time |-> <<>>]

EmptyDict == [k \in {} |-> 0]

\* A new VenmoGraph.
GraphInit ==
    /\ edges = <<>>
    /\ degrees = EmptyDict
    /\ degree_buckets = EmptyDict
    /\ call = [op |-> "__init__", edge |-> NoEdge, index |-> 0, held |-> 0, ret |-> None, flag |-> FALSE]

\* A new VenmoGraph, and edges that come to it already constructed.
Init ==
    /\ GraphInit
    /\ date_str = <<>>
    /\ made = NotMade
    /\ source = <<>>
    /\ line = 0
    /\ yielded = <<>>
    /\ output = <<>>
    /\ pc = "idle"

\* ------------------------------------------------------------ dict helpers

\* d[k] = x on a dict.
DictSet(d, k, x) == [j \in DOMAIN d \cup {k} |-> IF j = k THEN x ELSE d[j]]

\* del d[k].
DictDel(d, k) == [j \in DOMAIN d \ {k} |-> d[j]]

\* A read of defaultdict(int): a missing key reads as int() = 0.  (The reads
\* of the model are the left sides of += and -=, which store the key.)
BucketGet(b, k) == IF k \in DOMAIN b THEN b[k] ELSE 0

\* self.degree_buckets[k] += n.
BucketAdd(b, k, n) == DictSet(b, k, BucketGet(b, k) + n)

\* ---------------------------------------------------------------- queries

\* newest_time that reads the first edge of the list instead of the last.
newest_time_first(es) == IF es = <<>> THEN datetime_min ELSE es[1].created_time

\* VenmoGraph.newest_time
newest_time(es) == IF es = <<>> THEN datetime_min ELSE es[Len(es)].created_time

\* within_time_window with the start of the window counted as inside it.
within_time_window_inclusive(es, edge) ==
    IF es = <<>> THEN TRUE
    ELSE LET newest == es[Len(es)].created_time
             window_start == newest - window_seconds
         IN  edge.created_time >= window_start

\* within_time_window without the case of a graph that holds no edge.
within_time_window_held(es, edge) ==
    /\ es # <<>>
    /\ edge.created_time > es[Len(es)].created_time - window_seconds

\* VenmoGraph.within_time_window
within_time_window(es, edge) ==
    IF es = <<>> THEN TRUE
    ELSE LET newest == es[Len(es)].created_time
             window_start == newest - window_seconds
         IN  edge.created_time > window_start

\* ------------------------------------------------------- degree bookkeeping

\* The ledger and the histogram, as the degree updates pass them along.
Ledger(d, b) == [degrees |-> d, degree_buckets |-> b]

\* update_add_vertex without the decrement of the bucket the vertex leaves.
update_add_vertex_keeps_bucket(st, vertex) ==
    IF vertex \notin DOMAIN st.degrees
    THEN Ledger(DictSet(st.degrees, vertex, 1),
                BucketAdd(st.degree_buckets, 1, 1))
    ELSE LET degree == st.degrees[vertex]
         IN  Ledger(DictSet(st.degrees, vertex, degree + 1),
                    BucketAdd(st.degree_buckets, degree + 1, 1))

\* One pass of the loop of _update_degrees_add, for one vertex.
update_add_vertex(st, vertex) ==
    IF vertex \notin DOMAIN st.degrees
    THEN Ledger(DictSet(st.degrees, vertex, 1),
                BucketAdd(st.degree_buckets, 1, 1))
    ELSE LET degree == st.degrees[vertex]
         IN  Ledger(DictSet(st.degrees, vertex, degree + 1),
                    BucketAdd(BucketAdd(st.degree_buckets, degree, -1), degree + 1, 1))

\* _update_degrees_add that visits each distinct vertex of the edge once.
_update_degrees_add_distinct(st, edge) ==
    IF vertices(edge)[1] = vertices(edge)[2]
    THEN update_add_vertex(st, vertices(edge)[1])
    ELSE update_add_vertex(update_add_vertex(st, vertices(edge)[1]), vertices(edge)[2])

\* VenmoGraph._update_degrees_add: the loop over edge.vertices().
_update_degrees_add(st, edge) ==
    update_add_vertex(update_add_vertex(st, vertices(edge)[1]), vertices(edge)[2])

\* update_remove_vertex without the del of a vertex whose degree reaches 0.
update_remove_vertex_keeps_vertex(st, vertex) ==
    LET degree == st.degrees[vertex]
        b1 == BucketAdd(st.degree_buckets, degree, -1)
    IN  IF degree - 1 = 0
        THEN Ledger(DictSet(st.degrees, vertex, 0), b1)
        ELSE Ledger(DictSet(st.degrees, vertex, degree - 1),
                    BucketAdd(b1, degree - 1, 1))

\* update_remove_vertex that takes the vertex out of its bucket twice.
update_remove_vertex_twice(st, vertex) ==
    LET degree == st.degrees[vertex]
        b1 == BucketAdd(BucketAdd(st.degree_buckets, degree, -1), degree, -1)
    IN  IF degree - 1 = 0
        THEN Ledger(DictDel(st.degrees, vertex), b1)
        ELSE Ledger(DictSet(st.degrees, vertex, degree - 1),
                    BucketAdd(b1, degree - 1, 1))

\* One pass of the loop of _update_degrees_remove, for one vertex.  The read
\* self.degrees[vertex] of a vertex that is no key has no value here (a
\* KeyError in the code).
update_remove_vertex(st, vertex) ==
    LET degree == st.degrees[vertex]
        b1 == BucketAdd(st.degree_buckets, degree, -1)
    IN  IF degree - 1 = 0
        THEN Ledger(DictDel(st.degrees, vertex), b1)
        ELSE Ledger(DictSet(st.degrees, vertex, degree - 1),
                    BucketAdd(b1, degree - 1, 1))

\* VenmoGraph._update_degrees_remove: the loop over edge.vertices().
_update_degrees_remove(st, edge) ==
    update_remove_vertex(update_remove_vertex(st, vertices(edge)[1]), vertices(edge)[2])

\* ------------------------------------------------------- edges of the window

\* The loop of _remove_edges from position index on (1-based), st the ledger
\* and start_index the count so far: every edge at or before threshold_time
\* is taken out of the ledger and moves start_index past itself.
RECURSIVE remove_scan(_, _, _, _, _)
remove_scan(es, threshold_time, index, st, start_index) ==
    IF index > Len(es)
    THEN [st |-> st, start_index |-> start_index]
    ELSE IF es[index].created_time <= threshold_time
         THEN remove_scan(es, threshold_time, index + 1,
                          _update_degrees_remove(st, es[index]), index)
         ELSE remove_scan(es, threshold_time, index + 1, st, start_index)

\* remove_scan that keeps an edge exactly at threshold_time.
RECURSIVE remove_scan_exclusive(_, _, _, _, _)
remove_scan_exclusive(es, threshold_time, index, st, start_index) ==
    IF index > Len(es)
    THEN [st |-> st, start_index |-> start_index]
    ELSE IF es[index].created_time < threshold_time
         THEN remove_scan_exclusive(es, threshold_time, index + 1,
                                    _update_degrees_remove(st, es[index]), index)
         ELSE remove_scan_exclusive(es, threshold_time, index + 1, st, start_index)

\* _remove_edges that keeps an edge exactly at threshold_time.
_remove_edges_exclusive(es, st, threshold_time) ==
    LET r == remove_scan_exclusive(es, threshold_time, 1, st, 0)
    IN  [edges |-> SubSeq(es, r.start_index + 1, Len(es)), st |-> r.st]

\* VenmoGraph._remove_edges: the graph (edges, ledger) after the call.
_remove_edges(es, st, threshold_time) ==
    LET r == remove_scan(es, threshold_time, 1, st, 0)
    IN  [edges |-> SubSeq(es, r.start_index + 1, Len(es)), st |-> r.st]

\* The loop of _insert_edge over reversed(self.edges): insert_index steps
\* down from len(self.edges) past every edge that is not older than the new
\* one.
RECURSIVE insert_scan(_, _, _)
insert_scan(es, edge, insert_index) ==
    IF insert_index = 0
    THEN 0
    ELSE IF edge.created_time > es[insert_index].created_time
         THEN insert_index
         ELSE insert_scan(es, edge, insert_index - 1)

\* list.insert(i, x)
ListInsert(es, i, x) == SubSeq(es, 1, i) \o <<x>> \o SubSeq(es, i + 1, Len(es))

\* _insert_edge as a plain append, for edges that arrive in time order only.
_insert_edge_appends(es, edge) == es \o <<edge>>

\* VenmoGraph._insert_edge
_insert_edge(es, edge) == ListInsert(es, insert_scan(es, edge, Len(es)), edge)

\* add_edge without the early return for an edge outside the window.
add_edge_result_no_return(es, st, edge) ==
    LET g == IF edge.created_time > newest_time(es)
             THEN _remove_edges(es, st, edge.created_time - window_seconds)
             ELSE [edges |-> es, st |-> st]
    IN  [edges |-> _insert_edge(g.edges, edge),
         st |-> _update_degrees_add(g.st, edge)]

\* VenmoGraph.add_edge: the graph (edges, ledger) after the call.
add_edge_result(es, st, edge) ==
    IF ~within_time_window(es, edge)
    THEN [edges |-> es, st |-> st]
    ELSE LET g == IF edge.created_time > newest_time(es)
                  THEN _remove_edges(es, st, edge.created_time - window_seconds)
                  ELSE [edges |-> es, st |-> st]
         IN  [edges |-> _insert_edge(g.edges, edge),
              st |-> _update_degrees_add(g.st, edge)]

\* ------------------------------------------------------------ median lookup

\* The keys of degree_buckets in the order iteritems() yields them.  The keys
\* are small integers stored in the order 1, 2, 3, ... (a vertex reaches
\* degree d + 1 only from degree d) and never deleted, so both a hash table
\* indexed by the key and an insertion-ordered dict yield them ascending.
RECURSIVE bucket_keys_from(_, _)
bucket_keys_from(b, k) ==
    IF \A j \in DOMAIN b : j < k
    THEN <<>>
    ELSE IF k \in DOMAIN b
         THEN <<k>> \o bucket_keys_from(b, k + 1)
         ELSE bucket_keys_from(b, k + 1)

iteritems(b) == bucket_keys_from(b, 0)

\* The loop of get_degree from the pos-th key on, bucket_index the count of
\* vertices in the buckets passed; falling off the end returns None.
RECURSIVE degree_scan(_, _, _, _, _)
degree_scan(b, keys, pos, bucket_index, index) ==
    IF pos > Len(keys)
    THEN None
    ELSE LET degree == keys[pos]
             bucket_size == b[degree]
         IN  IF bucket_index + bucket_size > index
             THEN degree
             ELSE degree_scan(b, keys, pos + 1, bucket_index + bucket_size, index)

\* degree_scan that stops at the bucket ending at index instead of the one
\* holding it.
RECURSIVE degree_scan_early(_, _, _, _, _)
degree_scan_early(b, keys, pos, bucket_index, index) ==
    IF pos > Len(keys)
    THEN None
    ELSE LET degree == keys[pos]
             bucket_size == b[degree]
         IN  IF bucket_index + bucket_size >= index
             THEN degree
             ELSE degree_scan_early(b, keys, pos + 1, bucket_index + bucket_size, index)

\* get_degree with >= for >.
get_degree_early(b, index) == degree_scan_early(b, iteritems(b), 1, 0, index)

\* VenmoGraph.get_degree
get_degree(b, index) == degree_scan(b, iteritems(b), 1, 0, index)

\* get_median_degree that takes the upper of the middle ranks.
get_median_degree_upper(d, b) ==
    LET length == Cardinality(DOMAIN d)
    IN  IF length = 0
        THEN None
        ELSE IF length % 2 = 0
             THEN LET index == length \div 2
                  IN  get_degree(b, index) + get_degree(b, index - 1)
             ELSE LET index == (length + 1) \div 2
                  IN  2 * get_degree(b, index)

\* VenmoGraph.get_median_degree, in halves: (x + y) / 2.0 is x + y halves and
\* float(x) is 2 * x halves.  length / 2 is Python 2's integer division.
get_median_degree(d, b) ==
    LET length == Cardinality(DOMAIN d)
    IN  IF length = 0
        THEN None
        ELSE IF length % 2 = 0
             THEN LET index == length \div 2
                  IN  get_degree(b, index) + get_degree(b, index - 1)
             ELSE LET index == (length - 1) \div 2
                  IN  2 * get_degree(b, index)

\* ---------------------------------------------------------------- actions

Call(op, edge, index, ret, flag) ==
    [op |-> op, edge |-> edge, index |-> index, held |-> Len(edges), ret |-> ret, flag |-> flag]

\* graph.add_edge(edge)
add_edge(edge) ==
    \E g \in {add_edge_result(edges, Ledger(degrees, degree_buckets), edge)} :
        /\ Len(g.edges) <= MaxEdges
        /\ edges' = g.edges
        /\ degrees' = g.st.degrees
        /\ degree_buckets' = g.st.degree_buckets
        /\ call' = Call("add_edge", edge, 0, None, FALSE)
        /\ UNCHANGED <<evars, dvars>>

AddEdge == \E edge \in InputEdges : add_edge(edge)

\* graph.newest_time()
NewestTime ==
    /\ call' = Call("newest_time", NoEdge, 0, newest_time(edges), FALSE)
    /\ UNCHANGED <<edges, degrees, degree_buckets>>
    /\ UNCHANGED <<evars, dvars>>

\* The edges passed to within_time_window, which reads only created_time.
QueryEdges == {Edge(1, 2, t) : t \in Times}

\* graph.within_time_window(edge)
WithinTimeWindow ==
    \E edge \in QueryEdges :
        /\ call' = Call("within_time_window", edge, 0, None, within_time_window(edges, edge))
        /\ UNCHANGED <<edges, degrees, degree_buckets>>
        /\ UNCHANGED <<evars, dvars>>

\* get_degree that looks the index up in the defaultdict, which stores the key.
GetDegreeStoresKey ==
    \E index \in 0..NumVertices :
        /\ call' = Call("get_degree", NoEdge, index, get_degree(degree_buckets, index), FALSE)
        /\ degree_buckets' = BucketAdd(degree_buckets, index, 0)
        /\ UNCHANGED <<edges, degrees>>
        /\ UNCHANGED <<evars, dvars>>

\* graph.get_degree(index), for an index up to the number of vertices.
GetDegree ==
    \E index \in 0..NumVertices :
        /\ call' = Call("get_degree", NoEdge, index, get_degree(degree_buckets, index), FALSE)
        /\ UNCHANGED <<edges, degrees, degree_buckets>>
        /\ UNCHANGED <<evars, dvars>>

\* graph.get_median_degree()
GetMedianDegree ==
    /\ call' = Call("get_median_degree", NoEdge, 0, get_median_degree(degrees, degree_buckets), FALSE)
    /\ UNCHANGED <<edges, degrees, degree_buckets>>
    /\ UNCHANGED <<evars, dvars>>

Next ==
    \/ AddEdge
    \/ NewestTime
    \/ WithinTimeWindow
    \/ GetDegree
    \/ GetMedianDegree

Spec == Init /\ [][Next]_vars

\* ------------------------------------------------- construction of an Edge

\* The characters of a timestamp text, each a string of length 1.
DigitChars == <<"0", "1", "2", "3", "4", "5", "6", "7", "8", "9">>

\* \d
IsDigit(c) == \E i \in 1..Len(DigitChars) : DigitChars[i] = c

\* int(c) for a digit c.
DigitValue(c) == (CHOOSE i \in 1..Len(DigitChars) : DigitChars[i] = c) - 1

\* [lo-hi], a class of digits.
InClass(c, lo, hi) == IsDigit(c) /\ DigitValue(c) \in lo..hi

\* int(text) for a text of digits, a leading space skipped.
RECURSIVE IntOf(_)
IntOf(text) ==
    IF text = <<>>
    THEN 0
    ELSE IF text[Len(text)] = " "
         THEN 0
         ELSE 10 * IntOf(SubSeq(text, 1, Len(text) - 1)) + DigitValue(text[Len(text)])

\* The regular expressions _strptime puts for the directives of the format.
\* %Y: \d\d\d\d
MatchesY(t) == Len(t) = 4 /\ \A i \in 1..4 : IsDigit(t[i])

\* %m: 1[0-2]|0[1-9]|[1-9]
Matchesm(t) ==
    \/ Len(t) = 2 /\ t[1] = "1" /\ InClass(t[2], 0, 2)
    \/ Len(t) = 2 /\ t[1] = "0" /\ InClass(t[2], 1, 9)
    \/ Len(t) = 1 /\ InClass(t[1], 1, 9)

\* %d: 3[0-1]|[1-2]\d|0[1-9]|[1-9]| [1-9]
Matchesd(t) ==
    \/ Len(t) = 2 /\ t[1] = "3" /\ InClass(t[2], 0, 1)
    \/ Len(t) = 2 /\ InClass(t[1], 1, 2) /\ IsDigit(t[2])
    \/ Len(t) = 2 /\ t[1] = "0" /\ InClass(t[2], 1, 9)
    \/ Len(t) = 1 /\ InClass(t[1], 1, 9)
    \/ Len(t) = 2 /\ t[1] = " " /\ InClass(t[2], 1, 9)

\* %H: 2[0-3]|[0-1]\d|\d
MatchesH(t) ==
    \/ Len(t) = 2 /\ t[1] = "2" /\ InClass(t[2], 0, 3)
    \/ Len(t) = 2 /\ InClass(t[1], 0, 1) /\ IsDigit(t[2])
    \/ Len(t) = 1 /\ IsDigit(t[1])

\* %M: [0-5]\d|\d
MatchesM(t) ==
    \/ Len(t) = 2 /\ InClass(t[1], 0, 5) /\ IsDigit(t[2])
    \/ Len(t) = 1 /\ IsDigit(t[1])

\* %S: 6[0-1]|[0-5]\d|\d
MatchesS(t) ==
    \/ Len(t) = 2 /\ t[1] = "6" /\ InClass(t[2], 0, 1)
    \/ Len(t) = 2 /\ InClass(t[1], 0, 5) /\ IsDigit(t[2])
    \/ Len(t) = 1 /\ IsDigit(t[1])

\* A literal letter of the format; the expression is compiled with IGNORECASE.
MatchesLetter(c, upper, lower) == c = upper \/ c = lower

\* The text of s from position p, n characters long (<<>> past the end).
Piece(s, p, n) == IF p + n - 1 <= Len(s) THEN SubSeq(s, p, p + n - 1) ELSE <<>>

\* The character of s at position p ("" past the end).
CharAt(s, p) == IF p \in 1..Len(s) THEN s[p] ELSE ""

\* Where the texts of the fields start when the month, day, hour, minute and
\* second texts are n.m, n.d, n.H, n.M and n.S characters long, and where the
\* final letter stands.
Positions(n) ==
    [m |-> 6,
     d |-> 7 + n.m,
     H |-> 8 + n.m + n.d,
     M |-> 9 + n.m + n.d + n.H,
     S |-> 10 + n.m + n.d + n.H + n.M,
     Z |-> 10 + n.m + n.d + n.H + n.M + n.S]

\* The ways the expression of '%Y-%m-%dT%H:%M:%SZ' matches at the start of s.
\* The separators are no digits, so at most one way exists.
FormatMatches(s) ==
    {n \in [m : {1, 2}, d : {1, 2}, H : {1, 2}, M : {1, 2}, S : {1, 2}] :
        LET p == Positions(n)
        IN  /\ MatchesY(Piece(s, 1, 4))
            /\ CharAt(s, 5) = "-"
            /\ Matchesm(Piece(s, p.m, n.m))
            /\ CharAt(s, p.d - 1) = "-"
            /\ Matchesd(Piece(s, p.d, n.d))
            /\ MatchesLetter(CharAt(s, p.H - 1), "T", "t")
            /\ MatchesH(Piece(s, p.H, n.H))
            /\ CharAt(s, p.M - 1) = ":"
            /\ MatchesM(Piece(s, p.M, n.M))
            /\ CharAt(s, p.S - 1) = ":"
            /\ MatchesS(Piece(s, p.S, n.S))
            /\ MatchesLetter(CharAt(s, p.Z), "Z", "z")}

\* The fields found by the match n of s, as integers, and where it ends.
Found(s, n) ==
    LET p == Positions(n)
    IN  [year |-> IntOf(Piece(s, 1, 4)),
         month |-> IntOf(Piece(s, p.m, n.m)),
         day |-> IntOf(Piece(s, p.d, n.d)),
         hour |-> IntOf(Piece(s, p.H, n.H)),
         minute |-> IntOf(Piece(s, p.M, n.M)),
         second |-> IntOf(Piece(s, p.S, n.S)),
         end |-> p.Z]

\* calendar: the days of a month.
IsLeap(year) == year % 4 = 0 /\ (year % 100 # 0 \/ year % 400 = 0)

DaysInMonth(year, month) ==
    IF month = 2 THEN (IF IsLeap(year) THEN 29 ELSE 28)
    ELSE IF month \in {4, 6, 9, 11} THEN 30 ELSE 31

\* datetime(year, month, day, hour, minute, second) raises ValueError for a
\* field out of range.
DatetimeOk(f) ==
    /\ f.year \in 1..9999
    /\ f.month \in 1..12
    /\ f.day \in 1..DaysInMonth(f.year, f.month)
    /\ f.hour \in 0..23
    /\ f.minute \in 0..59
    /\ f.second \in 0..59

\* A datetime value.
Datetime(f) ==
    [year |-> f.year, month |-> f.month, day |-> f.day,
     hour |-> f.hour, minute |-> f.minute, second |-> f.second]

\* What a call comes to: a ValueError, or the value returned.
Raised == [done |-> TRUE, raised |-> TRUE, created_time |-> <<>>]

Returned(dt) == [done |-> TRUE, raised |-> FALSE, created_time |-> dt]

\* strptime that does not look for text left after the match.
strptime_prefix(s) ==
    IF FormatMatches(s) = {}
    THEN Raised
    ELSE LET f == Found(s, CHOOSE n \in FormatMatches(s) : TRUE)
         IN  IF ~DatetimeOk(f) THEN Raised ELSE Returned(Datetime(f))

\* datetime.strptime(s, '%Y-%m-%dT%H:%M:%SZ'): ValueError when the expression
\* does not match ("does not match format"), when text is left after the
\* match ("unconverted data remains") and when the date or the time found is
\* none (the date and datetime constructors).
strptime(s) ==
    IF FormatMatches(s) = {}
    THEN Raised
    ELSE LET f == Found(s, CHOOSE n \in FormatMatches(s) : TRUE)
         IN  IF Len(s) # f.end
             THEN Raised
             ELSE IF ~DatetimeOk(f) THEN Raised ELSE Returned(Datetime(f))

\* Edge.__init__: the created_time of the Edge, or the ValueError of strptime
\* that leaves no Edge.  (self.v1 and self.v2 are the arguments as given.)
Edge_init(s) == strptime(s)

\* The timestamp texts given to Edge(...): every joining of a text for each
\* field and separator, and one text of another shape.
YearTexts == {<<"2", "0", "1", "6">>, <<"2", "1", "6">>, <<"0", "0", "0", "0">>}

MonthTexts == {<<"0", "3">>, <<"3">>, <<"1", "3">>, <<"0", "2">>}

DayTexts == {<<"2", "8">>, <<"3", "1">>, <<" ", "8">>}

HourTexts == {<<"2", "3">>, <<"2", "4">>, <<"-", "1">>, <<"7">>}

MinuteTexts == {<<"2", "5">>, <<"6", "0">>}

SecondTexts == {<<"2", "1">>, <<"6", "0">>, <<"1", "0", "0">>, <<"5">>}

LetterTs == {<<"T">>, <<"t">>}

EndTexts == {<<"Z">>, <<"z">>, <<>>, <<"Z", "0">>}

DateStrings ==
    {y \o <<"-">> \o m \o <<"-">> \o d \o t \o h \o <<":">> \o mi \o <<":">> \o sec \o z :
        y \in YearTexts, m \in MonthTexts, d \in DayTexts, t \in LetterTs,
        h \in HourTexts, mi \in MinuteTexts, sec \in SecondTexts, z \in EndTexts}
    \cup {<<"b", "a", "d", "_", "d", "a", "t", "e">>}

\* Edge(v1, v2, date_str) is about to be called.
EdgeInit ==
    /\ GraphInit
    /\ date_str \in DateStrings
    /\ made = NotMade
    /\ source = <<>>
    /\ line = 0
    /\ yielded = <<>>
    /\ output = <<>>
    /\ pc = "idle"

\* Edge(v1, v2, date_str)
ConstructEdge ==
    /\ ~made.done
    /\ made' = Edge_init(date_str)
    /\ UNCHANGED <<date_str, gvars, dvars>>

EdgeNext == ConstructEdge

SpecEdge == EdgeInit /\ [][EdgeNext]_vars

\* ------------------------------------------------------- the driving loop

\* The instant the driver's timestamps are counted from, 2016-03-28T23:25:00Z,
\* and the seconds of a datetime of that day since then: the graph compares
\* and subtracts created_time values only, and is given them as seconds.
SecondsOf(dt) ==
    (dt.hour * 3600 + dt.minute * 60 + dt.second) - (23 * 3600 + 25 * 60)

\* The keys of a transaction of the Venmo API that create_edge reads.
TransactionKeys == {"actor", "target", "created_time"}

\* The created_time texts of the input: three instants 0 s, 1 s and 60 s after
\* the first, and a text with month 13.
DriverDates ==
    {<<"2", "0", "1", "6", "-", "0", "3", "-", "2", "8", "T", "2", "3", ":", "2", "5", ":", "0", "0", "Z">>,
     <<"2", "0", "1", "6", "-", "0", "3", "-", "2", "8", "T", "2", "3", ":", "2", "5", ":", "0", "1", "Z">>,
     <<"2", "0", "1", "6", "-", "0", "3", "-", "2", "8", "T", "2", "3", ":", "2", "6", ":", "0", "0", "Z">>,
     <<"2", "0", "1", "6", "-", "1", "3", "-", "2", "8", "T", "2", "3", ":", "2", "5", ":", "0", "0", "Z">>}

\* The actor and target of the input's transactions.
DriverPairs == {<<1, 2>>, <<2, 3>>}

\* The lines of an input file: json tells whether json.loads takes the line,
\* keys are the keys of the object loaded.
Transactions ==
    {[json |-> TRUE, keys |-> TransactionKeys, actor |-> p[1], target |-> p[2], created_time |-> d] :
        p \in DriverPairs, d \in DriverDates}

\* A transaction without its created_time.
Untimed == [json |-> TRUE, keys |-> {"actor", "target"}, actor |-> 1, target |-> 2, created_time |-> <<>>]

\* A line that is no JSON text, an empty line for one.
NotJson == [json |-> FALSE, keys |-> {}, actor |-> 0, target |-> 0, created_time |-> <<>>]

Lines == Transactions \cup {Untimed, NotJson}

\* create_edge(transaction): KeyError for a missing key, else what Edge(...)
\* comes to.
create_edge(transaction) ==
    IF ~(TransactionKeys \subseteq transaction.keys)
    THEN Raised
    ELSE Edge_init(transaction.created_time)

\* "{:.2f}".format(median) + '\n' for a median kept in halves, below 10.
Format(median) ==
    <<DigitChars[(median \div 2) + 1], ".", IF median % 2 = 0 THEN "0" ELSE "5", "0", "\n">>

\* main is about to run on an input file of MaxLines lines.
DriverInit ==
    /\ GraphInit
    /\ date_str = <<>>
    /\ made = NotMade
    /\ source \in [1..MaxLines -> Lines]
    /\ line = 0
    /\ yielded = <<>>
    /\ output = <<>>
    /\ pc = "reading"

\* json.loads(line) raises ValueError outside the try: the exception leaves
\* gen_median_degrees and main, and the program ends.
LoadRaises ==
    /\ pc = "reading"
    /\ line < Len(source)
    /\ ~source[line + 1].json
    /\ line' = line + 1
    /\ pc' = "raised"
    /\ UNCHANGED <<gvars, evars, source, yielded, output>>

\* create_edge raises (KeyError, or ValueError from Edge): the except clause
\* prints a warning and the loop goes on.
RecordSkipped ==
    /\ pc = "reading"
    /\ line < Len(source)
    /\ source[line + 1].json
    /\ \E r \in {create_edge(source[line + 1])} :
            /\ r.raised
            /\ IF TransactionKeys \subseteq source[line + 1].keys
               THEN date_str' = source[line + 1].created_time /\ made' = r
               ELSE UNCHANGED evars
    /\ line' = line + 1
    /\ UNCHANGED <<gvars, source, yielded, output, pc>>

\* The edge is created and graph.add_edge(edge) returns: the generator yields
\* graph.get_median_degree() and main writes it; format raises ValueError for
\* None.
RecordProcessed ==
    /\ pc = "reading"
    /\ line < Len(source)
    /\ source[line + 1].json
    /\ \E transaction \in {source[line + 1]} :
       \E r \in {create_edge(transaction)} :
       /\ ~r.raised
       /\ \E edge \in {Edge(transaction.actor, transaction.target, SecondsOf(r.created_time))} :
          \E g \in {add_edge_result(edges, Ledger(degrees, degree_buckets), edge)} :
          \E median \in {get_median_degree(g.st.degrees, g.st.degree_buckets)} :
            /\ date_str' = transaction.created_time
            /\ made' = r
            /\ edges' = g.edges
            /\ degrees' = g.st.degrees
            /\ degree_buckets' = g.st.degree_buckets
            /\ call' = Call("add_edge", edge, 0, None, FALSE)
            /\ yielded' = Append(yielded, median)
            /\ IF median = None
               THEN pc' = "raised" /\ UNCHANGED output
               ELSE output' = Append(output, Format(median)) /\ UNCHANGED pc
    /\ line' = line + 1
    /\ UNCHANGED source

\* The input is read to its end: the generator and main return.
EndOfInput ==
    /\ pc = "reading"
    /\ line = Len(source)
    /\ pc' = "done"
    /\ UNCHANGED <<gvars, evars, source, line, yielded, output>>

DriverNext ==
    \/ LoadRaises
    \/ RecordSkipped
    \/ RecordProcessed
    \/ EndOfInput

SpecDriver == DriverInit /\ [][DriverNext]_vars

\* ------------------------------------------------------------- properties

\* The sum of f over the finite set S of its arguments.
RECURSIVE SumOver(_, _)
SumOver(f, S) ==
    IF S = {}
    THEN 0
    ELSE LET x == CHOOSE y \in S : TRUE
         IN  f[x] + SumOver(f, S \ {x})

\* How many times v is an endpoint of a held edge: a self-loop is two.
EndpointCount(v) ==
    Cardinality({i \in 1..Len(edges) : edges[i].v1 = v})
    + Cardinality({i \in 1..Len(edges) : edges[i].v2 = v})

\* Some vertex once had a degree that no vertex has now: an edge was evicted.
DegreeFellBack == \E k \in DOMAIN degree_buckets : \A v \in DOMAIN degrees : degrees[v] < k

\* C1: for every vertex the ledger degree is the number of endpoint
\* occurrences of the vertex among the held edges, the vertex is a key of the
\* ledger exactly when that number is at least 1, and the ledger degrees sum
\* to twice the number of held edges.
C1_LedgerCountsEndpoints ==
    /\ DOMAIN degrees \subseteq Vertices
    /\ \A v \in Vertices : v \in DOMAIN degrees <=> EndpointCount(v) >= 1
    /\ \A v \in DOMAIN degrees : degrees[v] = EndpointCount(v)
    /\ SumOver(degrees, DOMAIN degrees) = 2 * Len(edges)

\* C1's case: add_edge has evicted edges, a vertex has lost degree, and the
\* graph holds a self-loop.
C1_Witness ==
    /\ call.op = "add_edge"
    /\ call.held + 1 > Len(edges)
    /\ DegreeFellBack
    /\ \E v \in DOMAIN degrees : degrees[v] >= 2
    /\ \E i \in 1..Len(edges) : edges[i].v1 = edges[i].v2

\* The degrees that are a key of the histogram or the degree of a vertex.
DegreeValues == DOMAIN degree_buckets \cup {degrees[v] : v \in DOMAIN degrees}

\* The histogram with a missing key read as 0.
BucketCount == [d \in DegreeValues |-> BucketGet(degree_buckets, d)]

\* d times the count of bucket d.
BucketWeight == [d \in DegreeValues |-> d * BucketGet(degree_buckets, d)]

\* C2: for every degree d >= 1 the histogram entry of d (0 if absent) is the
\* number of ledger vertices of degree d; the counts sum to the number of
\* ledger vertices and the counts weighted by degree to twice the number of
\* held edges.
C2_HistogramCountsVertices ==
    /\ \A d \in {x \in DegreeValues \cup 1..(2 * MaxEdges) : x >= 1} :
           BucketGet(degree_buckets, d) = Cardinality({v \in DOMAIN degrees : degrees[v] = d})
    /\ SumOver(BucketCount, DegreeValues) = Cardinality(DOMAIN degrees)
    /\ SumOver(BucketWeight, DegreeValues) = 2 * Len(edges)

\* C2's case: after an eviction, vertices of different degrees and a bucket
\* that has emptied.
C2_Witness ==
    /\ call.op = "add_edge"
    /\ call.held + 1 > Len(edges)
    /\ \E d \in DOMAIN degree_buckets : degree_buckets[d] = 0
    /\ \E v, w \in DOMAIN degrees : degrees[v] < degrees[w]

RemoveAt(es, i) == SubSeq(es, 1, i - 1) \o SubSeq(es, i + 1, Len(es))

\* new is old with the edge e put in, and nothing else put in: what is left of
\* new without e is old, or old without the edges at its front.
Admits(old, new, e) ==
    \E i \in 1..Len(new) : \E k \in 0..Len(old) :
        /\ new[i] = e
        /\ RemoveAt(new, i) = SubSeq(old, k + 1, Len(old))

C6_EvictionBoundary ==
    [][(/\ call'.op = "add_edge"
        /\ call'.edge.created_time > newest_time(edges))
       => LET e == call'.edge
              Kept(g) == g.created_time > e.created_time - window_seconds
          IN  edges' = SelectSeq(edges, Kept) \o <<e>>]_vars

\* C6's case: the newest edge has just been added, an edge 59 seconds older
\* is still held before it, and an older edge was evicted by the call.
C6_Witness ==
    /\ call.op = "add_edge"
    /\ Len(edges) = 2
    /\ call.held = 2
    /\ edges[2] = call.edge
    /\ edges[1].created_time = call.edge.created_time - (window_seconds - 1)

\* The element at rank i (0-based) of the values of the dict d in ascending
\* order: fewer than i + 1 values lie below it, at least i + 1 at or below.
RankOf(d, i) ==
    CHOOSE x \in {d[v] : v \in DOMAIN d} :
        /\ Cardinality({v \in DOMAIN d : d[v] < x}) <= i
        /\ Cardinality({v \in DOMAIN d : d[v] <= x}) > i

\* The median of the values of the dict d, in halves; None for no values.
MedianOf(d) ==
    LET n == Cardinality(DOMAIN d)
    IN  IF n = 0
        THEN None
        ELSE IF n % 2 = 1
             THEN 2 * RankOf(d, (n - 1) \div 2)
             ELSE RankOf(d, n \div 2 - 1) + RankOf(d, n \div 2)

\* C7: get_median_degree returns the median of the ledger degrees in
\* ascending order: the element at rank (n-1)/2 for an odd number n of
\* vertices, the average of the elements at ranks n/2-1 and n/2 for an even
\* number, None for an empty ledger.
C7_MedianOfLedger ==
    call.op = "get_median_degree" => call.ret = MedianOf(degrees)

\* C7's case: the median of an even number of vertices has been asked for,
\* and the two middle ranks hold different degrees.
C7_Witness ==
    /\ call.op = "get_median_degree"
    /\ Cardinality(DOMAIN degrees) % 2 = 0
    /\ \E x, y \in {degrees[v] : v \in DOMAIN degrees} : x < y /\ call.ret = x + y

\* The held edges that join v and u.
Joining(v, u) == {i \in 1..Len(edges) : {edges[i].v1, edges[i].v2} = {v, u}}

\* The participants that v shares a held edge with.
Counterparties(v) == {u \in Vertices : Joining(v, u) # {}}

\* The degree the ledger records for v: 0 for a vertex that is no key.
RecordedDegree(v) == IF v \in DOMAIN degrees THEN degrees[v] ELSE 0

\* C8 as claimed: the degree recorded for each participant is the number of
\* distinct counterparties it shares a held edge with.  Stated for graphs
\* without a self-loop, where a counterparty is another participant.
C8_DistinctCounterparties ==
    (\A i \in 1..Len(edges) : edges[i].v1 # edges[i].v2)
        => \A v \in Vertices : RecordedDegree(v) = Cardinality(Counterparties(v))

\* The number of held edges v has with each counterparty: an edge to another
\* participant once, a self-loop at both of its ends.
LinkCount ==
    [v \in Vertices |->
        LET PerParty == [u \in Vertices |->
                            IF u = v THEN 2 * Cardinality(Joining(v, v))
                            ELSE Cardinality(Joining(v, u))]
        IN  SumOver(PerParty, Vertices)]

\* LinkCount on the participants that have a held edge.
LinkDegrees == [v \in {w \in Vertices : LinkCount[w] >= 1} |-> LinkCount[v]]

\* C8 as amended: the degree recorded for each participant is the number of
\* in-window edges it shares with its counterparties, each edge counted
\* (several in-window edges between the same two participants count
\* separately, a self-loop twice), and the reported median is the median of
\* these degrees.
C8_EdgesPerCounterparty ==
    /\ \A v \in Vertices : RecordedDegree(v) = LinkCount[v]
    /\ call.op = "get_median_degree" => call.ret = MedianOf(LinkDegrees)

\* C8's case: two held edges join the same two participants, and the median
\* has been reported.
C8_Witness ==
    /\ call.op = "get_median_degree"
    /\ call.ret # None
    /\ \E v \in Vertices : \E u \in Counterparties(v) \ {v} : Cardinality(Joining(v, u)) = 2

\* C9 as claimed: added to a graph that holds one edge, an edge exactly 60
\* seconds older than newest_time() is admitted: two edges are held, the new
\* one first, and when both edges join the same two participants each of
\* them has degree 2.
C9_BoundaryEdgeAdmitted ==
    [][(/\ call'.op = "add_edge"
        /\ Len(edges) = 1
        /\ call'.edge.created_time = newest_time(edges) - window_seconds)
       => (/\ Len(edges') = 2
           /\ edges'[1] = call'.edge
           /\ edges'[2] = edges[1]
           /\ (/\ vertices(call'.edge) = vertices(edges[1])
               /\ call'.edge.v1 # call'.edge.v2)
              => \A v \in {call'.edge.v1, call'.edge.v2} : RecordedDegree(v)' = 2)]_vars

\* The ledger holds the degree multiset {1, 1, 2}.
LedgerIsOneOneTwo ==
    /\ Cardinality(DOMAIN degrees) = 3
    /\ Cardinality({v \in DOMAIN degrees : degrees[v] = 1}) = 2
    /\ Cardinality({v \in DOMAIN degrees : degrees[v] = 2}) = 1

\* C10 as claimed: for the degree multiset {1, 1, 2} the median degree query
\* returns 2 (four halves).
C10_MedianIsTwo ==
    (call.op = "get_median_degree" /\ LedgerIsOneOneTwo) => call.ret = 2 * 2

\* C10 as amended: for the degree multiset {1, 1, 2} the median degree query
\* returns 1.0 (two halves), the element at the middle rank 1.
C10_MedianIsOne ==
    (call.op = "get_median_degree" /\ LedgerIsOneOneTwo) => call.ret = 2 * 1

\* C10's case: two held edges a-b and b-c, and the median has been asked for.
C10_Witness ==
    /\ call.op = "get_median_degree"
    /\ LedgerIsOneOneTwo
    /\ Len(edges) = 2
    /\ edges[1].v2 = edges[2].v1

\* C11 as claimed: every key of degree_buckets maps to a count of at least 1.
C11_NoEmptyBucket ==
    \A k \in DOMAIN degree_buckets : degree_buckets[k] >= 1

\* C11 as amended: no bucket holds a negative count; every key of
\* degree_buckets is a degree of at least 1 and maps to a count of at least
\* 0, a bucket that has emptied staying as a key with count 0.
C11_NoNegativeBucket ==
    \A k \in DOMAIN degree_buckets :
        /\ k >= 1
        /\ degree_buckets[k] >= 0
        /\ degree_buckets[k] = 0 <=> ~(\E v \in DOMAIN degrees : degrees[v] = k)

\* C11's case: add_edge has raised the only vertices of degree 1 to degree 2,
\* and bucket 1 is still a key.
C11_Witness ==
    /\ call.op = "add_edge"
    /\ 1 \in DOMAIN degree_buckets
    /\ degree_buckets[1] = 0
    /\ \E v \in DOMAIN degrees : degrees[v] = 2

\* The degree the ledger d records for v: 0 for a vertex that is no key.
DegreeIn(d, v) == IF v \in DOMAIN d THEN d[v] ELSE 0

\* C14: when add_edge admits an edge at or before newest_time(), every edge
\* held before is still held, in its order, the edge count grows by exactly
\* 1, newest_time() is unchanged, and only the ledger entries of the edge's
\* endpoints change.
C14_LateEdgeEvictsNothing ==
    [][(/\ call'.op = "add_edge"
        /\ edges # <<>>
        /\ call'.edge.created_time > newest_time(edges) - window_seconds
        /\ call'.edge.created_time <= newest_time(edges))
       => (/\ Len(edges') = Len(edges) + 1
           /\ \E i \in 1..Len(edges') :
                  edges'[i] = call'.edge /\ RemoveAt(edges', i) = edges
           /\ newest_time(edges') = newest_time(edges)
           /\ \A v \in Vertices \ {call'.edge.v1, call'.edge.v2} :
                  /\ v \in DOMAIN degrees' <=> v \in DOMAIN degrees
                  /\ DegreeIn(degrees', v) = DegreeIn(degrees, v)
           /\ \A v \in {call'.edge.v1, call'.edge.v2} :
                  DegreeIn(degrees', v) > DegreeIn(degrees, v))]_vars

\* C14's case: an edge older than the newest held edge has been admitted
\* beside an edge of other participants.
C14_Witness ==
    /\ call.op = "add_edge"
    /\ Len(edges) = call.held + 1
    /\ call.held >= 1
    /\ call.edge.created_time < newest_time(edges)
    /\ \E v \in DOMAIN degrees : v \notin {call.edge.v1, call.edge.v2}

\* The histogram b holds, for every degree of at least 1, the number of
\* vertices of the ledger d that have the degree.
HistogramMatches(d, b) ==
    \A k \in {x \in DOMAIN b \cup {d[v] : v \in DOMAIN d} : x >= 1} :
        BucketGet(b, k) = Cardinality({v \in DOMAIN d : d[v] = k})

\* The number of self-loops at v among the first k edges of es.
LoopsAt(es, k, v) == Cardinality({i \in 1..k : es[i].v1 = v /\ es[i].v2 = v})

\* The number of the first k edges of es that join v to another vertex.
OthersAt(es, k, v) ==
    Cardinality({i \in 1..k : es[i].v1 # es[i].v2 /\ v \in {es[i].v1, es[i].v2}})

\* C15: admitting a self-loop (v, v) raises v's degree by exactly 2 (a new
\* vertex ends at degree 2 with bucket 1 at its earlier count), evicting a
\* self-loop lowers v's degree by exactly 2, v leaving the ledger when its
\* degree reaches 0, and the histogram stays the per-degree vertex count.
C15_SelfLoopCountsTwice ==
    [][call'.op = "add_edge" =>
          LET e == call'.edge
              admitted == edges = <<>> \/ e.created_time > newest_time(edges) - window_seconds
              evicted == IF admitted THEN Len(edges) + 1 - Len(edges') ELSE 0
          IN  /\ (admitted /\ e.v1 = e.v2 /\ evicted = 0)
                  => /\ DegreeIn(degrees', e.v1) = DegreeIn(degrees, e.v1) + 2
                     /\ e.v1 \notin DOMAIN degrees
                          => /\ degrees'[e.v1] = 2
                             /\ BucketGet(degree_buckets', 1) = BucketGet(degree_buckets, 1)
              /\ \A v \in Vertices :
                     (/\ LoopsAt(edges, evicted, v) >= 1
                      /\ OthersAt(edges, evicted, v) = 0
                      /\ v \notin {e.v1, e.v2})
                     => /\ DegreeIn(degrees', v) = DegreeIn(degrees, v) - 2 * LoopsAt(edges, evicted, v)
                        /\ DegreeIn(degrees', v) = 0 <=> v \notin DOMAIN degrees'
              /\ (e.v1 = e.v2 \/ \E v \in Vertices : LoopsAt(edges, evicted, v) >= 1)
                     => HistogramMatches(degrees', degree_buckets')]_vars

\* C15's case: a self-loop has been evicted, its vertex has left the ledger,
\* and the edge admitted joins other vertices.
C15_Witness ==
    /\ call.op = "add_edge"
    /\ call.held = 1
    /\ edges = <<call.edge>>
    /\ call.edge.v1 # call.edge.v2
    /\ 2 \in DOMAIN degree_buckets
    /\ \A v \in DOMAIN degrees : degrees[v] = 1
    /\ 1 \notin DOMAIN degrees

\* The greatest created_time of the edges es, datetime.min for none.
MaxTime(es) ==
    IF es = <<>>
    THEN datetime_min
    ELSE CHOOSE t \in {es[i].created_time : i \in 1..Len(es)} :
             \A i \in 1..Len(es) : es[i].created_time <= t

\* C16: newest_time() is the greatest timestamp of the held edges (datetime.min
\* for none); it never decreases, and it changes only when an edge with a
\* strictly newer timestamp is admitted, to that edge's timestamp.
C16_NewestTimeIsMaxAndGrows ==
    /\ [](newest_time(edges) = MaxTime(edges))
    /\ [][/\ newest_time(edges') >= newest_time(edges)
          /\ call'.op = "newest_time" => call'.ret = MaxTime(edges)
          /\ newest_time(edges') # newest_time(edges)
               => /\ call'.op = "add_edge"
                  /\ call'.edge.created_time > newest_time(edges)
                  /\ newest_time(edges') = call'.edge.created_time]_vars

\* C16's case: newest_time() has been asked for after a late edge was put
\* before the newest one.
C16_Witness ==
    /\ call.op = "newest_time"
    /\ Len(edges) = 2
    /\ edges[1].created_time < edges[2].created_time
    /\ call.ret = edges[2].created_time

\* C17: with n ledger vertices, get_degree(i) returns the i-th smallest ledger
\* degree (0-indexed) for every 0 <= i < n and None for every i >= n.
C17_GetDegreeByRank ==
    call.op = "get_degree" =>
        call.ret = IF call.index < Cardinality(DOMAIN degrees)
                   THEN RankOf(degrees, call.index)
                   ELSE None

\* C17's case: get_degree has passed a bucket of count 0 and a bucket that
\* ends before the index.
C17_Witness ==
    /\ call.op = "get_degree"
    /\ call.index = 1
    /\ call.ret = 3
    /\ \E k \in DOMAIN degree_buckets : k < 3 /\ degree_buckets[k] = 0

\* C18: newest_time, within_time_window, get_degree and get_median_degree
\* leave the edge sequence, the ledger and the histogram, its set of keys
\* included, as they were.
C18_QueriesChangeNothing ==
    [][call'.op \in {"newest_time", "within_time_window", "get_degree", "get_median_degree"}
          => /\ edges' = edges
             /\ degrees' = degrees
             /\ degree_buckets' = degree_buckets
             /\ DOMAIN degree_buckets' = DOMAIN degree_buckets]_vars

\* C18's case: get_degree has been called with an index that is no key of the
\* histogram of a graph that holds edges.
C18_Witness ==
    /\ call.op = "get_degree"
    /\ edges # <<>>
    /\ call.index \notin DOMAIN degree_buckets

\* ---- C13: construction of an Edge from a timestamp text

\* The length of the digits s starts with (s starts with a digit).
DigitRun(s) ==
    CHOOSE n \in 1..Len(s) :
        /\ \A i \in 1..n : IsDigit(s[i])
        /\ n = Len(s) \/ ~IsDigit(s[n + 1])

\* s cut into its numbers and its other characters, one by one.
RECURSIVE Tokens(_)
Tokens(s) ==
    IF s = <<>>
    THEN <<>>
    ELSE IF IsDigit(s[1])
         THEN <<SubSeq(s, 1, DigitRun(s))>> \o Tokens(SubSeq(s, DigitRun(s) + 1, Len(s)))
         ELSE <<<<s[1]>>>> \o Tokens(Tail(s))

\* The value of a number of one or two digits.
Number(t) ==
    IF Len(t) = 1 THEN DigitValue(t[1]) ELSE 10 * DigitValue(t[1]) + DigitValue(t[2])

\* The value of a year of four digits.
YearNumber(t) == 100 * Number(SubSeq(t, 1, 2)) + Number(SubSeq(t, 3, 4))

IsNumber(t, lengths) == Len(t) \in lengths /\ \A i \in 1..Len(t) : IsDigit(t[i])

\* The tokens of s, a space before a day of one digit left out.
DateTokens(s) ==
    LET k == Tokens(s)
    IN  IF Len(k) = 13 /\ k[5] = <<" ">> /\ IsNumber(k[6], {1})
        THEN SubSeq(k, 1, 4) \o SubSeq(k, 6, 13)
        ELSE k

\* s is a year of four digits, then a month, a day, an hour, a minute and a
\* second of one or two digits each, between the separators - - T : : and
\* before a final Z, the two letters in either case, and nothing more.
LenientShape(s) ==
    LET k == DateTokens(s)
    IN  /\ Len(k) = 12
        /\ IsNumber(k[1], {4})
        /\ \A i \in {3, 5, 7, 9, 11} : IsNumber(k[i], {1, 2})
        /\ k[2] = <<"-">> /\ k[4] = <<"-">>
        /\ k[6] \in {<<"T">>, <<"t">>}
        /\ k[8] = <<":">> /\ k[10] = <<":">>
        /\ k[12] \in {<<"Z">>, <<"z">>}

\* s is exactly YYYY-MM-DDTHH:MM:SSZ, every field of two digits.
StrictShape(s) ==
    /\ Len(s) = 20
    /\ \A i \in {1, 2, 3, 4, 6, 7, 9, 10, 12, 13, 15, 16, 18, 19} : IsDigit(s[i])
    /\ s[5] = "-" /\ s[8] = "-" /\ s[11] = "T"
    /\ s[14] = ":" /\ s[17] = ":" /\ s[20] = "Z"

\* The date and the time a text of lenient shape gives.
FieldsOf(s) ==
    LET k == DateTokens(s)
    IN  [year |-> YearNumber(k[1]), month |-> Number(k[3]), day |-> Number(k[5]),
         hour |-> Number(k[7]), minute |-> Number(k[9]), second |-> Number(k[11])]

\* The fields are a date of the calendar and a time of the day.
InRange(f) ==
    /\ f.year >= 1
    /\ f.month \in 1..12
    /\ f.day >= 1 /\ f.day <= DaysInMonth(f.year, f.month)
    /\ f.hour \in 0..23
    /\ f.minute \in 0..59
    /\ f.second \in 0..59

Malformed(record) ==
    \/ ~record.json
    \/ ~({"actor", "target", "created_time"} \subseteq record.keys)
    \/ ~(LenientShape(record.created_time) /\ InRange(FieldsOf(record.created_time)))

\* The graph after the step is the graph before it.
GraphUnchanged ==
    /\ edges' = edges
    /\ degrees' = degrees
    /\ degree_buckets' = degree_buckets

\* C12 as stated: each step of the driving loop emits exactly one median, after
\* those emitted before, for a record whose edge is constructed and passed to
\* add_edge, and for a malformed record emits nothing, leaves the graph
\* unchanged and goes on to the later records.  Refuted by a line that is no
\* JSON text: the loop is left and the later records are never read.
C12_MalformedRecordSkipped ==
    [][line' = line + 1 =>
        IF Malformed(source[line'])
        THEN /\ yielded' = yielded
             /\ output' = output
             /\ GraphUnchanged
             /\ pc' = "reading"
        ELSE /\ Len(yielded') = Len(yielded) + 1
             /\ SubSeq(yielded', 1, Len(yielded)) = yielded
             /\ Len(output') = Len(output) + 1
             /\ SubSeq(output', 1, Len(output)) = output
             /\ pc' = "reading"]_vars

\* ---- C19: the graph is never empty after an add_edge call

\* C19: once add_edge has returned (the driver has yielded a median), the edge
\* sequence holds at least one edge and the ledger at least one vertex, every
\* median yielded is a number of at least 1.0 and never None, and main has
\* written every one of them.
C19_NeverEmptyAgain ==
    yielded # <<>> =>
        /\ edges # <<>>
        /\ DOMAIN degrees # {}
        /\ \A k \in 1..Len(yielded) : yielded[k] # None /\ yielded[k] >= 2
        /\ Len(output) = Len(yielded)
        /\ pc = "raised" => ~source[line].json

\* Three add_edge calls have returned: the second evicted the only edge held
\* and the third was rejected by the window.
C19_Witness ==
    /\ Len(yielded) = 3
    /\ Len(edges) = 1
    /\ edges[1].created_time = window_seconds
    /\ call.edge.created_time = 0

====
